---- MODULE Spec2Model ----
(***************************************************************************)
(* Rocky Mountain Power integration: the update cycle of the coordinator   *)
(* (coordinator.py), the credential validation of the config flow          *)
(* (config_flow.py) and the browser-driven portal client                   *)
(* (rocky_mountain_power.py), as a state machine.                          *)
(*                                                                         *)
(* Time is a small set of integer timestamps; consumption and cost are     *)
(* small naturals.  An Optional value is a sequence of length 0 (None) or  *)
(* 1.  The portal and the remote browser are the environment: every        *)
(* outcome they can produce at a step is a nondeterministic choice.        *)
(***************************************************************************)
EXTENDS Integers, Sequences, FiniteSets, TLC

\* ------------------------------------------------------------------ bounds
MaxT == 3
MaxVal == 1
MaxReads == 1
MaxCycles == 3
MaxPages == 3
MaxItems == 1
MaxDay == 1
MaxElapsed == 1
MaxCalls == 1
MaxQuits == 2
MaxNoise == 1

\* ------------------------------------------------------- program constants
\* get_cost_reads(AggregateType.DAY, 24) / (AggregateType.HOUR, 60) on a first
\* run; period defaults to 1 on the incremental path.
DayPeriods == 24
HourPeriods == 60
DefaultPeriod == 1

Times == 1..MaxT
None == <<>>
Some(v) == <<v>>

\* URLs of the capture buffer that login and get_forecast read.
URL_ME == "api/user/me"
URL_ACCOUNTS == "api/self-service/getAccountList"
URL_METER == "api/energy-usage/getMeterType"
IdentityURLs == {URL_ME, URL_ACCOUNTS}

\* Page titles the waits test, and any other.
Titles == {"Sign in", "My account", "Energy usage", "other"}

\* Exceptions the driven browser raises by itself.
DriverErrors == {"WebDriverException", "TimeoutException",
                 "NoSuchElementException", "ElementClickInterceptedException"}
Classified == {"InvalidAuth", "CannotConnect"}

COST == "energy_cost"
CONSUMPTION == "energy_consumption"
SeriesIds == {COST, CONSUMPTION}

VARIABLES
    pc,                     \* position of the running entry point
    caller,                 \* "none" | "update" | "validate"
    exc,                    \* exception in flight ("none" when there is none)
    br,                     \* self.br: "none" | "open" | "closed"
    title,                  \* title of the page the browser shows
    typed,                  \* credential fields filled in by this login
    submitted,              \* button#next clicked by this login
    loginFailedAt,          \* the step at which this login failed ("none")
    xhrs,                   \* utility.xhrs: URL -> body
    user_id,                \* utility.user_id (Optional)
    utility_account,        \* utility.account (Optional)
    account,                \* RockyMountainPower.account (Optional)
    customer_id,            \* RockyMountainPower.customer_id (Optional)
    utility_forecast,       \* utility.forecast
    forecasts,              \* local of _async_update_data
    plan,                   \* get_cost_reads calls still to make
    last_stat,              \* local of _insert_statistics: "unset" | "none" | "some"
    cost_reads,             \* local of _insert_statistics
    cost_statistics,        \* local of _insert_statistics
    consumption_statistics, \* local of _insert_statistics
    added,                  \* async_add_external_statistics calls of this run
    store,                  \* the statistics store: series id -> (start -> row)
    store0,                 \* the store when the running entry point started
    endCalls,               \* end_session calls of this run
    raised,                 \* exception the finished run raised ("none")
    ret,                    \* value the finished run returned
    cycles,                 \* update cycles started
    view,                   \* aggregate type last fetched in the session ("none"; "over" once the cycle ends)
    months,                 \* months / days: pages the fetch may still parse
    usage,                  \* usage: the entries the fetch has collected
    log,                    \* the browser's performance log, not yet read
    inflight,               \* request the portal has not answered yet (Optional)
    clicks,                 \* successful clicks on PREVIOUS in this fetch
    parsed,                 \* the payloads parsed in this fetch, page by page
    capturedAt,             \* when the paging endpoint's body entered the buffer
    stopped,                \* why the paging loop ended ("none" while it runs)
    returned,               \* what get_cost_reads returned last
    remote,                 \* the selenium host: "up" | "down"
    quits,                  \* on_quit calls
    calls,                  \* get_cost_reads calls started
    noise                   \* undecodable log lines written so far

vars == <<pc, caller, exc, br, title, typed, submitted, loginFailedAt, xhrs, user_id,
          utility_account, account, customer_id, utility_forecast, forecasts, plan,
          last_stat, cost_reads, cost_statistics, consumption_statistics,
          added, store, store0, endCalls, raised, ret, cycles,
          view, months, usage, log, inflight, clicks, parsed, capturedAt,
          stopped, returned, remote, quits, calls, noise>>

apiVars == <<xhrs, user_id, utility_account, account, customer_id, utility_forecast>>
statVars == <<plan, last_stat, cost_reads, cost_statistics,
              consumption_statistics, added, store>>
runVars == <<caller, store0, endCalls, raised, ret, cycles>>
loginVars == <<typed, submitted, loginFailedAt>>
fetchVars == <<view, months, usage, log, inflight, clicks, parsed, capturedAt,
               stopped, returned, remote, quits, calls, noise>>

\* RockyMountainPowerUtility.__init__ / RockyMountainPower.__init__
EmptyXhrs == [u \in {} |-> "x"]

Init ==
    /\ pc = "idle"
    /\ caller = "none"
    /\ exc = "none"
    /\ br = "none"
    /\ title = ""
    /\ typed = {}
    /\ submitted = FALSE
    /\ loginFailedAt = "none"
    /\ xhrs = EmptyXhrs
    /\ user_id = None
    /\ utility_account = None
    /\ account = None
    /\ customer_id = None
    /\ utility_forecast = "empty"
    /\ forecasts = <<>>
    /\ plan = <<>>
    /\ last_stat = "unset"
    /\ cost_reads = <<>>
    /\ cost_statistics = <<>>
    /\ consumption_statistics = <<>>
    /\ added = 0
    /\ store = [s \in SeriesIds |-> [t \in {} |-> 0]]
    /\ store0 = [s \in SeriesIds |-> [t \in {} |-> 0]]
    /\ endCalls = 0
    /\ raised = "none"
    /\ ret = "none"
    /\ cycles = 0
    /\ view = "none"
    /\ months = 0
    /\ usage = <<>>
    /\ log = <<>>
    /\ inflight = None
    /\ clicks = 0
    /\ parsed = <<>>
    /\ capturedAt = None
    /\ stopped = "none"
    /\ returned = <<>>
    /\ remote = "up"
    /\ quits = 0
    /\ calls = 0
    /\ noise = 0


\* ------------------------------------------------------------ entry points

\* The locals of an entry point, as they are when it starts.
ResetLocals ==
    /\ exc' = "none"
    /\ typed' = {}
    /\ submitted' = FALSE
    /\ loginFailedAt' = "none"
    /\ forecasts' = <<>>
    /\ plan' = <<>>
    /\ last_stat' = "unset"
    /\ cost_reads' = <<>>
    /\ cost_statistics' = <<>>
    /\ consumption_statistics' = <<>>
    /\ added' = 0
    /\ store0' = store
    /\ endCalls' = 0
    /\ raised' = "none"
    /\ ret' = "none"

\* A new RockyMountainPower object (and its RockyMountainPowerUtility).
FreshApi ==
    /\ br' = "none"
    /\ title' = ""
    /\ xhrs' = EmptyXhrs
    /\ user_id' = None
    /\ utility_account' = None
    /\ account' = None
    /\ customer_id' = None
    /\ utility_forecast' = "empty"

\* _validate_login is entered from the user step or the reauth step: before
\* any entry exists, after a failed validation, or after an update cycle that
\* raised ConfigEntryAuthFailed.  It builds its own RockyMountainPower.
StartValidate ==
    /\ \/ pc = "idle"
       \/ pc = "done" /\ caller = "validate"
       \/ pc = "done" /\ caller = "update" /\ raised = "ConfigEntryAuthFailed"
    /\ caller' = "validate"
    /\ pc' = "init_browser"
    /\ ResetLocals
    /\ FreshApi
    /\ UNCHANGED <<store, cycles>>
    /\ UNCHANGED fetchVars

\* _async_update_data is entered by the scheduler: the first time on the
\* coordinator created after a validation without errors (a new api object),
\* then again on the same coordinator.
StartUpdate ==
    /\ pc = "done"
    /\ cycles < MaxCycles
    /\ \/ /\ caller = "validate"
          /\ raised = "none"
          /\ ret = "no_errors"
          /\ FreshApi
       \/ /\ caller = "update"
          /\ UNCHANGED <<br, title, apiVars>>
    /\ caller' = "update"
    /\ cycles' = cycles + 1
    /\ pc' = "init_browser"
    /\ ResetLocals
    /\ UNCHANGED store
    /\ UNCHANGED fetchVars

\* ------------------------------------------ RockyMountainPowerUtility.login

\* An exception leaves login at `step`.
LoginRaises(e, step) ==
    /\ exc' = e
    /\ loginFailedAt' = step
    /\ pc' = "login_raised"

LoginGoes(next) ==
    /\ pc' = next
    /\ UNCHANGED <<exc, loginFailedAt>>

\* init_browser: webdriver.Remote either yields a new browser or raises and
\* leaves self.br as it was.
InitBrowser ==
    /\ pc = "init_browser"
    /\ \/ /\ br' = "open"
          /\ title' = ""
          /\ LoginGoes("get")
       \/ /\ UNCHANGED <<br, title>>
          /\ LoginRaises("WebDriverException", "init_browser")
    /\ UNCHANGED <<typed, submitted>>
    /\ UNCHANGED <<apiVars, statVars, runVars, forecasts>>
    /\ UNCHANGED fetchVars

\* self.br.get(self.LOGIN_URL)
LoadLoginPage ==
    /\ pc = "get"
    /\ \/ LoginGoes("wait_signin")
       \/ LoginRaises("WebDriverException", "get")
    /\ UNCHANGED <<br, title, typed, submitted>>
    /\ UNCHANGED <<apiVars, statVars, runVars, forecasts>>
    /\ UNCHANGED fetchVars

\* Mutant: the title wait without its try/except, the timeout escapes.
WaitSignIn_Unguarded ==
    /\ pc = "wait_signin"
    /\ \E shown \in Titles :
        /\ title' = shown
        /\ IF shown = "Sign in"
           THEN LoginGoes("banner")
           ELSE LoginRaises("TimeoutException", "wait_signin")
    /\ UNCHANGED <<br, typed, submitted>>
    /\ UNCHANGED <<apiVars, statVars, runVars, forecasts>>
    /\ UNCHANGED fetchVars

\* self.wait.until(EC.title_is("Sign in")), any failure => CannotConnect
WaitSignIn ==
    /\ pc = "wait_signin"
    /\ \E shown \in Titles :
        /\ title' = shown
        /\ IF shown = "Sign in"
           THEN LoginGoes("banner")
           ELSE LoginRaises("CannotConnect", "wait_signin")
    /\ UNCHANGED <<br, typed, submitted>>
    /\ UNCHANGED <<apiVars, statVars, runVars, forecasts>>
    /\ UNCHANGED fetchVars

\* fullscreen_window and the optional cookie banner's click
CookieBanner ==
    /\ pc = "banner"
    /\ \/ LoginGoes("wait_frame")
       \/ LoginRaises("WebDriverException", "banner")
       \/ LoginRaises("ElementClickInterceptedException", "banner")
    /\ UNCHANGED <<br, title, typed, submitted>>
    /\ UNCHANGED <<apiVars, statVars, runVars, forecasts>>
    /\ UNCHANGED fetchVars

\* self.wait.until(EC.frame_to_be_available_and_switch_to_it(...)), unguarded
WaitFrame ==
    /\ pc = "wait_frame"
    /\ \/ LoginGoes("username")
       \/ LoginRaises("TimeoutException", "wait_frame")
    /\ UNCHANGED <<br, title, typed, submitted>>
    /\ UNCHANGED <<apiVars, statVars, runVars, forecasts>>
    /\ UNCHANGED fetchVars

\* get_el(..., "input#signInName", keys=username), required
TypeUsername ==
    /\ pc = "username"
    /\ \/ /\ typed' = typed \cup {"signInName"}
          /\ LoginGoes("password")
       \/ /\ UNCHANGED typed
          /\ LoginRaises("NoSuchElementException", "username")
    /\ UNCHANGED <<br, title, submitted>>
    /\ UNCHANGED <<apiVars, statVars, runVars, forecasts>>
    /\ UNCHANGED fetchVars

\* get_el(..., "input#password", keys=password), required
TypePassword ==
    /\ pc = "password"
    /\ \/ /\ typed' = typed \cup {"password"}
          /\ LoginGoes("next")
       \/ /\ UNCHANGED typed
          /\ LoginRaises("NoSuchElementException", "password")
    /\ UNCHANGED <<br, title, submitted>>
    /\ UNCHANGED <<apiVars, statVars, runVars, forecasts>>
    /\ UNCHANGED fetchVars

\* get_el(..., "button#next") and target.click()
ClickNext ==
    /\ pc = "next"
    /\ \/ /\ submitted' = TRUE
          /\ LoginGoes("wait_account")
       \/ /\ UNCHANGED submitted
          /\ LoginRaises("NoSuchElementException", "next")
       \/ /\ UNCHANGED submitted
          /\ LoginRaises("ElementClickInterceptedException", "next")
    /\ UNCHANGED <<br, title, typed>>
    /\ UNCHANGED <<apiVars, statVars, runVars, forecasts>>
    /\ UNCHANGED fetchVars

\* Mutant: the landing-page wait classified like the login-page wait.
WaitMyAccount_CannotConnect ==
    /\ pc = "wait_account"
    /\ \E shown \in Titles :
        /\ title' = shown
        /\ IF shown = "My account"
           THEN LoginGoes("identity")
           ELSE LoginRaises("CannotConnect", "wait_account")
    /\ UNCHANGED <<br, typed, submitted>>
    /\ UNCHANGED <<apiVars, statVars, runVars, forecasts>>
    /\ UNCHANGED fetchVars

\* self.wait.until(EC.title_is("My account")), any failure => InvalidAuth
WaitMyAccount ==
    /\ pc = "wait_account"
    /\ \E shown \in Titles :
        /\ title' = shown
        /\ IF shown = "My account"
           THEN LoginGoes("identity")
           ELSE LoginRaises("InvalidAuth", "wait_account")
    /\ UNCHANGED <<br, typed, submitted>>
    /\ UNCHANGED <<apiVars, statVars, runVars, forecasts>>
    /\ UNCHANGED fetchVars

\* Mutant: the responses read replace the buffer.
MergeXhrs_Replace(old, new) == new

\* get_xhrs: the responses logged since the last call are merged into the
\* buffer, a newer body replacing an older one.
MergeXhrs(old, new) ==
    [u \in DOMAIN old \cup DOMAIN new |-> IF u \in DOMAIN new THEN new[u] ELSE old[u]]

\* Bodies of the identity and account-list responses: one that parses and
\* holds the fields read, or one that does not.
IdentityBodies == {"ok", "malformed"}

\* What xhrs[url] and json.loads raise, if anything.
Lookup(buffer, url) ==
    IF url \notin DOMAIN buffer THEN "KeyError"
    ELSE IF buffer[url] = "malformed" THEN "JSONDecodeError"
    ELSE "none"

\* xhrs = self.get_xhrs(); me = json.loads(xhrs[.../api/user/me]);
\* self.user_id = me["id"]; accounts = json.loads(xhrs[.../getAccountList]);
\* self.account = ...[0]; then, in RockyMountainPower.login, the api's account
\* and customer_id are set when they are still empty.
Identity ==
    /\ pc = "identity"
    /\ \E logged \in SUBSET IdentityURLs : \E bodies \in [logged -> IdentityBodies] :
        LET buffer == MergeXhrs(xhrs, bodies)
        IN  /\ xhrs' = buffer
            /\ IF Lookup(buffer, URL_ME) # "none"
               THEN /\ LoginRaises(Lookup(buffer, URL_ME), "identity")
                    /\ UNCHANGED <<user_id, utility_account, account, customer_id>>
               ELSE IF Lookup(buffer, URL_ACCOUNTS) # "none"
               THEN /\ user_id' = Some("uid")
                    /\ LoginRaises(Lookup(buffer, URL_ACCOUNTS), "identity")
                    /\ UNCHANGED <<utility_account, account, customer_id>>
               ELSE /\ user_id' = Some("uid")
                    /\ utility_account' = Some("acct")
                    /\ account' = IF account = None THEN Some("acct") ELSE account
                    /\ customer_id' = IF customer_id = None THEN Some("uid")
                                      ELSE customer_id
                    /\ LoginGoes("logged_in")
    /\ UNCHANGED <<br, title, typed, submitted, utility_forecast>>
    /\ UNCHANGED <<statVars, runVars, forecasts>>
    /\ UNCHANGED fetchVars

\* ----------------------------------------------- the callers' try statements

\* _validate_login: except InvalidAuth / except CannotConnect fill `errors`;
\* any other exception stays in flight.
ValidateExcept ==
    /\ pc = "login_raised"
    /\ caller = "validate"
    /\ IF exc = "InvalidAuth"
       THEN ret' = "invalid_auth" /\ exc' = "none"
       ELSE IF exc = "CannotConnect"
            THEN ret' = "cannot_connect" /\ exc' = "none"
            ELSE UNCHANGED <<ret, exc>>
    /\ pc' = "finally"
    /\ UNCHANGED <<br, title, apiVars, statVars, loginVars, forecasts>>
    /\ UNCHANGED <<caller, store0, endCalls, raised, cycles>>
    /\ UNCHANGED fetchVars

\* _validate_login: api.login() returned, errors stays {}.
ValidateLoggedIn ==
    /\ pc = "logged_in"
    /\ caller = "validate"
    /\ ret' = "no_errors"
    /\ pc' = "finally"
    /\ UNCHANGED <<exc, br, title, apiVars, statVars, loginVars, forecasts>>
    /\ UNCHANGED <<caller, store0, endCalls, raised, cycles>>
    /\ UNCHANGED fetchVars

\* Mutant: the except clause outside the try/finally, so that an exception
\* of login leaves the cycle without end_session.
UpdateExcept_NoFinally ==
    /\ pc = "login_raised"
    /\ caller = "update"
    /\ raised' = IF exc = "InvalidAuth" THEN "ConfigEntryAuthFailed" ELSE exc
    /\ exc' = "none"
    /\ pc' = "done"
    /\ UNCHANGED <<br, title, apiVars, statVars, loginVars, forecasts>>
    /\ UNCHANGED <<caller, store0, endCalls, ret, cycles>>
    /\ UNCHANGED fetchVars

\* _async_update_data: except InvalidAuth as err: raise ConfigEntryAuthFailed
\* from err; any other exception stays in flight.
UpdateExcept ==
    /\ pc = "login_raised"
    /\ caller = "update"
    /\ exc' = IF exc = "InvalidAuth" THEN "ConfigEntryAuthFailed" ELSE exc
    /\ pc' = "finally"
    /\ UNCHANGED <<br, title, apiVars, statVars, loginVars, forecasts, runVars>>
    /\ UNCHANGED fetchVars

\* ------------------------------------------------------------- get_forecast

\* Bodies of the getMeterType response: with a getMeterTypeResponseBody, or
\* without one (details.get(..., {}) is then empty).
MeterBodies == {"forecast", "empty"}

\* RockyMountainPower.get_forecast: utility.get_forecast() navigates
\* (goto_energy_usage: the link lookup may raise, a wrong title after the
\* click is CannotConnect), captures and reads xhrs[.../getMeterType]; a
\* Forecast is built when the body is not empty.
GetForecast ==
    /\ pc = "logged_in"
    /\ caller = "update"
    /\ \/ /\ exc' = "NoSuchElementException"
          /\ pc' = "finally"
          /\ UNCHANGED <<title, xhrs, utility_forecast, forecasts>>
       \/ \E shown \in Titles \ {"Energy usage"} :
            /\ title' = shown
            /\ exc' = "CannotConnect"
            /\ pc' = "finally"
            /\ UNCHANGED <<xhrs, utility_forecast, forecasts>>
       \/ \E logged \in SUBSET {URL_METER} : \E body \in MeterBodies :
            LET buffer == MergeXhrs(xhrs, [u \in logged |-> body])
            IN  /\ title' = "Energy usage"
                /\ xhrs' = buffer
                /\ IF URL_METER \notin DOMAIN buffer
                   THEN /\ exc' = "KeyError"
                        /\ pc' = "finally"
                        /\ UNCHANGED <<utility_forecast, forecasts>>
                   ELSE /\ utility_forecast' = buffer[URL_METER]
                        /\ forecasts' = IF buffer[URL_METER] = "empty"
                                        THEN <<>> ELSE <<"acct">>
                        /\ pc' = "insert_statistics"
                        /\ UNCHANGED exc
    /\ UNCHANGED <<br, user_id, utility_account, account, customer_id>>
    /\ UNCHANGED <<statVars, loginVars, runVars>>
    /\ UNCHANGED fetchVars

\* -------------------------------------------------- the statistics store

\* A series maps the start of a row to [state, sum]; a point is
\* StatisticData(start, state, sum).
Point(start, state, sum) == [start |-> start, state |-> state, sum |-> sum]

MaxOf(S) == CHOOSE x \in S : \A y \in S : y <= x
MinOf(S) == CHOOSE x \in S : \A y \in S : x <= y

\* get_last_statistics(hass, 1, statistic_id, True, set()): the start of the
\* latest row of the series, None when the series has no row.
get_last_statistics(series) ==
    IF DOMAIN series = {} THEN None ELSE Some(MaxOf(DOMAIN series))

\* statistics_during_period(hass, start_time, None, ids, "hour", None, {"sum"})
\* followed by [0]: the earliest row starting at or after start_time, None
\* when there is none (the subscript then raises).
statistics_during_period(series, start_time) ==
    LET S == {t \in DOMAIN series : t >= start_time}
    IN  IF S = {} THEN None
        ELSE Some(Point(MinOf(S), series[MinOf(S)].state, series[MinOf(S)].sum))

\* The store writes one row per start: a point at a start that has a row
\* replaces it.
Upsert(series, p) ==
    [t \in DOMAIN series \cup {p.start} |->
        IF t = p.start THEN [state |-> p.state, sum |-> p.sum] ELSE series[t]]

RECURSIVE ImportAll(_, _)
ImportAll(series, points) ==
    IF points = <<>> THEN series
    ELSE ImportAll(Upsert(series, Head(points)), Tail(points))

\* async_add_external_statistics(hass, metadata, statistics)
async_add_external_statistics(series, statistics) == ImportAll(series, statistics)

\* ----------------------------------------------------------- get_cost_reads

MONTH == "month"
DAY == "day"
HOUR == "hour"

\* The entries get_usage_by_month / _by_day / _by_hour return: the hourly view
\* carries no amount.
Amounts(aggregate_type) ==
    IF aggregate_type = HOUR THEN {None}
    ELSE {None} \cup {Some(a) : a \in 1..MaxVal}

RawReads(aggregate_type) ==
    [startTime : Times, usage : 0..MaxVal, amount : Amounts(aggregate_type)]

SeqsUpTo(S, n) == UNION {[1..k -> S] : k \in 0..n}

\* CostRead(start_time, consumption=read["usage"], provided_cost=read["amount"] or 0)
CostRead(read) ==
    [start_time |-> read.startTime,
     consumption |-> read.usage,
     provided_cost |-> IF read.amount = None THEN 0 ELSE read.amount[1]]

\* Mutant: only the very last record is looked at.
RemoveLastZeros_Once(result) ==
    IF result = <<>> THEN <<>>
    ELSE LET last == result[Len(result)]
         IN  IF last.provided_cost # 0 \/ last.consumption # 0
             THEN result
             ELSE SubSeq(result, 1, Len(result) - 1)

\* while result: last = result.pop(); if last is not all zero, put it back and stop
RECURSIVE RemoveLastZeros(_)
RemoveLastZeros(result) ==
    IF result = <<>> THEN <<>>
    ELSE LET last == result[Len(result)]
         IN  IF last.provided_cost # 0 \/ last.consumption # 0
             THEN result
             ELSE RemoveLastZeros(SubSeq(result, 1, Len(result) - 1))

get_cost_reads(reads) ==
    RemoveLastZeros([i \in 1..Len(reads) |-> CostRead(reads[i])])


\* -------------------------------------------------------- _insert_statistics

Call(aggregate_type, period) == [aggregate_type |-> aggregate_type, period |-> period]

\* _async_get_all_cost_reads: month, then day with 24, then hour with 60.
AllCostReadsPlan ==
    <<Call(MONTH, DefaultPeriod), Call(DAY, DayPeriods), Call(HOUR, HourPeriods)>>

\* Mutant: the recent reads ask for the hours before the days.
RecentCostReadsPlan_HourFirst ==
    <<Call(HOUR, DefaultPeriod), Call(DAY, DefaultPeriod)>>

\* _async_get_recent_cost_reads: day, then hour, both with the default period.
RecentCostReadsPlan ==
    <<Call(DAY, DefaultPeriod), Call(HOUR, DefaultPeriod)>>

\* get_account, then last_stat = get_last_statistics(consumption series):
\* the first-run path is taken when there is no last row.
InsertBegin ==
    /\ pc = "insert_statistics"
    /\ last_stat' = IF get_last_statistics(store[CONSUMPTION]) = None
                    THEN "none" ELSE "some"
    /\ plan' = IF get_last_statistics(store[CONSUMPTION]) = None
               THEN AllCostReadsPlan ELSE RecentCostReadsPlan
    /\ pc' = "fetch"
    /\ UNCHANGED <<exc, br, title, apiVars, loginVars, forecasts, runVars>>
    /\ UNCHANGED <<cost_reads, cost_statistics, consumption_statistics, added, store>>
    /\ UNCHANGED fetchVars

\* What a usage fetch raises on the landing page before its first page is
\* parsed (the unguarded wait for the first capture), and after the buffer
\* was cleared for the next page (the PREVIOUS control's lookup).  A wrong
\* title after goto_energy_usage is CannotConnect.
FetchErrorsEarly == {"TimeoutException"}
FetchErrorsPaging == {"IndexError"}

\* The daily and hourly fetch clear the buffer after each page but the last:
\* months -= 1; if months > 0: self.xhrs = {}
ClearsBuffer(call) == call.aggregate_type # MONTH /\ call.period - 1 > 0

\* Mutant: the records of a fetch go to the store as soon as it returns.
Fetch_Streaming ==
    /\ pc = "fetch"
    /\ plan # <<>>
    /\ LET call == Head(plan)
       IN  \/ \E reads \in SeqsUpTo(RawReads(call.aggregate_type), MaxReads) :
                /\ title' = "Energy usage"
                /\ cost_reads' = cost_reads \o get_cost_reads(reads)
                /\ plan' = Tail(plan)
                /\ xhrs' = IF ClearsBuffer(call) THEN EmptyXhrs ELSE xhrs
                /\ LET now == get_cost_reads(reads)
                   IN  store' = [store EXCEPT
                            ![COST] = async_add_external_statistics(@,
                                [i \in 1..Len(now) |-> Point(now[i].start_time,
                                    now[i].provided_cost, now[i].provided_cost)]),
                            ![CONSUMPTION] = async_add_external_statistics(@,
                                [i \in 1..Len(now) |-> Point(now[i].start_time,
                                    now[i].consumption, now[i].consumption)])]
                /\ UNCHANGED <<pc, exc>>
           \/ \E shown \in Titles \ {"Energy usage"} :
                /\ title' = shown
                /\ exc' = "CannotConnect"
                /\ pc' = "finally"
                /\ UNCHANGED <<cost_reads, plan, xhrs, store>>
           \/ \E e \in FetchErrorsEarly :
                /\ title' = "Energy usage"
                /\ exc' = e
                /\ pc' = "finally"
                /\ UNCHANGED <<cost_reads, plan, xhrs, store>>
           \/ \E e \in FetchErrorsPaging :
                /\ ClearsBuffer(call)
                /\ title' = "Energy usage"
                /\ exc' = e
                /\ pc' = "finally"
                /\ xhrs' = EmptyXhrs
                /\ UNCHANGED <<cost_reads, plan, store>>
    /\ UNCHANGED <<br, user_id, utility_account, account, customer_id, utility_forecast>>
    /\ UNCHANGED <<loginVars, forecasts, runVars>>
    /\ UNCHANGED <<last_stat, cost_statistics, consumption_statistics, added>>
    /\ UNCHANGED fetchVars

\* cost_reads += get_cost_reads(aggregate_type, period)
Fetch ==
    /\ pc = "fetch"
    /\ plan # <<>>
    /\ LET call == Head(plan)
       IN  \/ \E reads \in SeqsUpTo(RawReads(call.aggregate_type), MaxReads) :
                /\ title' = "Energy usage"
                /\ cost_reads' = cost_reads \o get_cost_reads(reads)
                /\ plan' = Tail(plan)
                /\ xhrs' = IF ClearsBuffer(call) THEN EmptyXhrs ELSE xhrs
                /\ UNCHANGED <<pc, exc>>
           \/ \E shown \in Titles \ {"Energy usage"} :
                /\ title' = shown
                /\ exc' = "CannotConnect"
                /\ pc' = "finally"
                /\ UNCHANGED <<cost_reads, plan, xhrs>>
           \/ \E e \in FetchErrorsEarly :
                /\ title' = "Energy usage"
                /\ exc' = e
                /\ pc' = "finally"
                /\ UNCHANGED <<cost_reads, plan, xhrs>>
           \/ \E e \in FetchErrorsPaging :
                /\ ClearsBuffer(call)
                /\ title' = "Energy usage"
                /\ exc' = e
                /\ pc' = "finally"
                /\ xhrs' = EmptyXhrs
                /\ UNCHANGED <<cost_reads, plan>>
    /\ UNCHANGED <<br, user_id, utility_account, account, customer_id, utility_forecast>>
    /\ UNCHANGED <<loginVars, forecasts, runVars>>
    /\ UNCHANGED <<last_stat, cost_statistics, consumption_statistics, added, store>>
    /\ UNCHANGED fetchVars

\* Mutant: the filter with < for <=.
Skipped_Strict(cost_read, last_stats_time) ==
    last_stats_time # None /\ cost_read.start_time < last_stats_time[1]

\* if last_stats_time is not None and start.timestamp() <= last_stats_time: continue
Skipped(cost_read, last_stats_time) ==
    last_stats_time # None /\ cost_read.start_time <= last_stats_time[1]

\* Mutant: the sums are not carried from one record to the next.
RECURSIVE StatisticsLoop_NoCarry(_, _, _, _, _, _)
StatisticsLoop_NoCarry(reads, cost_sum, consumption_sum, last_stats_time, cs, ns) ==
    IF reads = <<>> THEN [cost |-> cs, consumption |-> ns]
    ELSE LET cost_read == Head(reads)
         IN  IF Skipped(cost_read, last_stats_time)
             THEN StatisticsLoop_NoCarry(Tail(reads), cost_sum, consumption_sum,
                                         last_stats_time, cs, ns)
             ELSE StatisticsLoop_NoCarry(
                    Tail(reads), cost_sum, consumption_sum, last_stats_time,
                    Append(cs, Point(cost_read.start_time, cost_read.provided_cost,
                                     cost_sum + cost_read.provided_cost)),
                    Append(ns, Point(cost_read.start_time, cost_read.consumption,
                                     consumption_sum + cost_read.consumption)))

\* for cost_read in cost_reads: ... : the two lists of StatisticData, in the
\* order of cost_reads, the sums running on from cost_sum and consumption_sum.
RECURSIVE StatisticsLoop(_, _, _, _, _, _)
StatisticsLoop(reads, cost_sum, consumption_sum, last_stats_time, cs, ns) ==
    IF reads = <<>> THEN [cost |-> cs, consumption |-> ns]
    ELSE LET cost_read == Head(reads)
         IN  IF Skipped(cost_read, last_stats_time)
             THEN StatisticsLoop(Tail(reads), cost_sum, consumption_sum,
                                 last_stats_time, cs, ns)
             ELSE StatisticsLoop(
                    Tail(reads),
                    cost_sum + cost_read.provided_cost,
                    consumption_sum + cost_read.consumption,
                    last_stats_time,
                    Append(cs, Point(cost_read.start_time, cost_read.provided_cost,
                                     cost_sum + cost_read.provided_cost)),
                    Append(ns, Point(cost_read.start_time, cost_read.consumption,
                                     consumption_sum + cost_read.consumption)))

\* The sums and the time the incremental path starts from:
\* stats[cost_statistic_id][0]["sum"], stats[consumption_statistic_id][0]["sum"]
\* and stats[cost_statistic_id][0]["start"].
PriorCost(reads) == statistics_during_period(store[COST], reads[1].start_time)
PriorConsumption(reads) == statistics_during_period(store[CONSUMPTION], reads[1].start_time)

\* The part of _insert_statistics after the fetches, up to the two lists.
Merge ==
    /\ pc = "fetch"
    /\ plan = <<>>
    /\ IF last_stat = "none"
       THEN LET out == StatisticsLoop(cost_reads, 0, 0, None, <<>>, <<>>)
            IN  /\ cost_statistics' = out.cost
                /\ consumption_statistics' = out.consumption
                /\ pc' = "add"
                /\ UNCHANGED exc
       ELSE IF cost_reads = <<>>
       THEN \* "No recent usage/cost data. Skipping update": return
            /\ pc' = "finally"
            /\ UNCHANGED <<exc, cost_statistics, consumption_statistics>>
       ELSE IF PriorCost(cost_reads) = None \/ PriorConsumption(cost_reads) = None
       THEN \* stats[...][0] finds no row
            /\ exc' = "KeyError"
            /\ pc' = "finally"
            /\ UNCHANGED <<cost_statistics, consumption_statistics>>
       ELSE LET out == StatisticsLoop(cost_reads,
                                      PriorCost(cost_reads)[1].sum,
                                      PriorConsumption(cost_reads)[1].sum,
                                      Some(PriorCost(cost_reads)[1].start),
                                      <<>>, <<>>)
            IN  /\ cost_statistics' = out.cost
                /\ consumption_statistics' = out.consumption
                /\ pc' = "add"
                /\ UNCHANGED exc
    /\ UNCHANGED <<br, title, apiVars, loginVars, forecasts, runVars>>
    /\ UNCHANGED <<plan, last_stat, cost_reads, added, store>>
    /\ UNCHANGED fetchVars

\* Mutant: only the cost list is handed to the store.
AddStatistics_CostOnly ==
    /\ pc = "add"
    /\ store' = [store EXCEPT
            ![COST] = async_add_external_statistics(store[COST], cost_statistics)]
    /\ added' = added + 1
    /\ pc' = "finally"
    /\ UNCHANGED <<exc, br, title, apiVars, loginVars, forecasts, runVars>>
    /\ UNCHANGED <<plan, last_stat, cost_reads, cost_statistics, consumption_statistics>>
    /\ UNCHANGED fetchVars

\* async_add_external_statistics(cost ...); async_add_external_statistics(consumption ...)
AddStatistics ==
    /\ pc = "add"
    /\ store' = [store EXCEPT
            ![COST] = async_add_external_statistics(store[COST], cost_statistics),
            ![CONSUMPTION] = async_add_external_statistics(store[CONSUMPTION],
                                                           consumption_statistics)]
    /\ added' = added + 2
    /\ pc' = "finally"
    /\ UNCHANGED <<exc, br, title, apiVars, loginVars, forecasts, runVars>>
    /\ UNCHANGED <<plan, last_stat, cost_reads, cost_statistics, consumption_statistics>>
    /\ UNCHANGED fetchVars

\* ----------------------------------------------------------------- teardown

\* The selenium host answers or does not.
Remotes == {"up", "down"}

\* self.br.close(); self.br.quit() under try/except: the browser an on_quit
\* call leaves behind, given the one it found and the state of the host.
close(b, r) == IF b = "open" /\ r = "up" THEN "closed" ELSE b

\* on_quit: try: self.br.close(); self.br.quit() except: pass.  Without a
\* browser, or with one already closed, the calls raise and nothing changes;
\* with an open one the browser closes, unless close() raises before quit().
on_quit(b) == {close(b, r) : r \in Remotes}

\* finally: api.end_session(), then the entry point returns or re-raises.
Finally ==
    /\ pc = "finally"
    /\ br' \in on_quit(br)
    /\ title' = IF br' = "open" THEN title ELSE ""
    /\ endCalls' = endCalls + 1
    /\ raised' = exc
    /\ exc' = "none"
    /\ ret' = IF exc # "none" THEN "none"
              ELSE IF caller = "validate" THEN ret
              ELSE IF forecasts = <<>> THEN "no_forecasts" ELSE "forecasts"
    /\ pc' = "done"
    /\ UNCHANGED <<apiVars, statVars, loginVars, forecasts>>
    /\ UNCHANGED <<caller, store0, cycles>>
    /\ UNCHANGED fetchVars

Next ==
    \/ StartValidate
    \/ StartUpdate
    \/ InitBrowser
    \/ LoadLoginPage
    \/ WaitSignIn
    \/ CookieBanner
    \/ WaitFrame
    \/ TypeUsername
    \/ TypePassword
    \/ ClickNext
    \/ WaitMyAccount
    \/ Identity
    \/ ValidateExcept
    \/ ValidateLoggedIn
    \/ UpdateExcept
    \/ GetForecast
    \/ InsertBegin
    \/ Fetch
    \/ Merge
    \/ AddStatistics
    \/ Finally

Spec == Init /\ [][Next]_vars


\* The credential validation alone: the config flow before any entry exists.
NextLogin ==
    \/ StartValidate
    \/ InitBrowser
    \/ LoadLoginPage
    \/ WaitSignIn
    \/ CookieBanner
    \/ WaitFrame
    \/ TypeUsername
    \/ TypePassword
    \/ ClickNext
    \/ WaitMyAccount
    \/ Identity
    \/ ValidateExcept
    \/ ValidateLoggedIn
    \/ Finally

SpecLogin == Init /\ [][NextLogin]_vars


\* ============================================ the utility, one call at a time

\* What the calls of the utility leave alone.
idleVars == <<caller, exc, typed, submitted, loginFailedAt, user_id, utility_account,
              account, customer_id, utility_forecast, forecasts, plan, last_stat,
              cost_reads, cost_statistics, consumption_statistics, added, store,
              store0, endCalls, ret, cycles>>

\* xhr_url of get_usage_by_month / get_usage_by_day / get_usage_by_hour
xhr_url(aggregate_type) ==
    IF aggregate_type = MONTH THEN "api/account/getUsageHistoryAndGraphDataV1"
    ELSE IF aggregate_type = DAY THEN "api/energy-usage/getUsageForDateRange"
    ELSE "api/energy-usage/getIntervalUsageForDate"

\* ---- payload entries and their normalisation; timestamps count hours

Days == 1..MaxDay

\* datetime.fromisoformat of a date, and of a date with a time "HH:00"
Midnight(date) == date * 24
FromIso(date, hh) == Midnight(date) + hh

\* readTime "01:00" .. "24:00", by its hour
ReadTimes == {1, 24}

\* d['readTime'].replace('24', '00')
Replace24(hh) == IF hh = 24 THEN 0 ELSE hh

\* invoiceAmount / dollerAmount: absent or unparsable (None), or "$n"
PayloadAmounts == {None} \cup {Some(a) : a \in 0..MaxVal}

\* locale.atof(d.get(..., "").strip("$")) or None, ValueError passed over
Amount(a) == IF a = None \/ a[1] = 0 THEN None ELSE a

MonthItems == [usagePeriodEndDate : Days, elapsedDays : 0..MaxElapsed,
               kwhUsageQuantity : 0..MaxVal, invoiceAmount : PayloadAmounts]
DayItems == [usagePeriodEndDate : Days, kwhUsageQuantity : 0..MaxVal,
             dollerAmount : PayloadAmounts]
HourItems == [readDate : Days, readTime : ReadTimes, usage : 0..MaxVal]

\* the body of the for loop of get_usage_by_month
month_item(d) ==
    [startTime |-> Midnight(d.usagePeriodEndDate) - 24 * d.elapsedDays,
     endTime |-> Midnight(d.usagePeriodEndDate),
     usage |-> d.kwhUsageQuantity,
     amount |-> Amount(d.invoiceAmount)]

\* the body of the for loop of get_usage_by_day
day_item(d) ==
    [startTime |-> Midnight(d.usagePeriodEndDate) - 24,
     endTime |-> Midnight(d.usagePeriodEndDate),
     usage |-> d.kwhUsageQuantity,
     amount |-> Amount(d.dollerAmount)]

\* the body of the for loop of get_usage_by_hour
hour_item(d) ==
    [startTime |-> FromIso(d.readDate, Replace24(d.readTime)) - 1,
     endTime |-> FromIso(d.readDate, Replace24(d.readTime)),
     usage |-> d.usage,
     amount |-> None]

Items(aggregate_type) ==
    IF aggregate_type = MONTH THEN MonthItems
    ELSE IF aggregate_type = DAY THEN DayItems ELSE HourItems

usage_item(aggregate_type, d) ==
    IF aggregate_type = MONTH THEN month_item(d)
    ELSE IF aggregate_type = DAY THEN day_item(d) ELSE hour_item(d)

\* usage.append(...) for every entry of a payload
PageUsage(aggregate_type, items) ==
    [i \in 1..Len(items) |-> usage_item(aggregate_type, items[i])]

\* ---- the performance log and get_xhrs

\* A line of the performance log: a JSON response whose body can be fetched
\* ("json"), one whose body is no longer available ("lost"), or a line that
\* json.loads cannot decode ("malformed").
LogLine(kind, url, req, items) ==
    [kind |-> kind, url |-> url, req |-> req, items |-> items]
MalformedLine == LogLine("malformed", "", <<0, 0>>, <<>>)

\* logs = [json.loads(lr["message"])["message"] for lr in logs_raw]
Decodable(lines) == \A i \in DOMAIN lines : lines[i].kind # "malformed"

\* for log in filter(...): try: xhrs[resp_url] = ...["body"] except: pass
LastJson(lines, url) ==
    MaxOf({i \in DOMAIN lines : lines[i].kind = "json" /\ lines[i].url = url})
Captured(lines) ==
    [u \in {lines[i].url : i \in {j \in DOMAIN lines : lines[j].kind = "json"}} |->
        [req |-> lines[LastJson(lines, u)].req,
         items |-> lines[LastJson(lines, u)].items]]

\* get_xhrs: the buffer after the call
get_xhrs(buffer, lines) == MergeXhrs(buffer, Captured(lines))

\* ---- the session

\* login, taken whole: init_browser gives a new browser with an empty log when
\* the host answers, and the identity responses enter the buffer.
OpenSession ==
    /\ pc = "idle"
    /\ remote = "up"
    /\ br' = "open"
    /\ title' = "My account"
    /\ xhrs' = MergeXhrs(xhrs, [u \in IdentityURLs |-> "ok"])
    /\ log' = <<>>
    /\ inflight' = None
    /\ view' = "none"
    /\ UNCHANGED <<pc, raised, idleVars>>
    /\ UNCHANGED <<months, usage, clicks, parsed, capturedAt, stopped,
                   returned, remote, quits, calls, noise>>

\* Mutant: on_quit without its try/except.
EndSession_Unguarded ==
    /\ pc = "idle"
    /\ quits < MaxQuits
    /\ br' = close(br, remote)
    /\ raised' = IF br = "open" /\ remote = "up" THEN raised ELSE "WebDriverException"
    /\ title' = IF br' = "open" THEN title ELSE ""
    /\ log' = IF br' = "open" THEN log ELSE <<>>
    /\ inflight' = IF br' = "open" THEN inflight ELSE None
    /\ quits' = quits + 1
    /\ view' = "over"
    /\ UNCHANGED <<pc, xhrs, idleVars>>
    /\ UNCHANGED <<months, usage, clicks, parsed, capturedAt, stopped,
                   returned, remote, calls, noise>>

\* end_session / atexit / sys.excepthook: self.utility.on_quit().  The cycle
\* is over: the next fetch comes after the next login.
EndSession ==
    /\ pc = "idle"
    /\ quits < MaxQuits
    /\ br' = close(br, remote)
    /\ title' = IF br' = "open" THEN title ELSE ""
    /\ log' = IF br' = "open" THEN log ELSE <<>>
    /\ inflight' = IF br' = "open" THEN inflight ELSE None
    /\ quits' = quits + 1
    /\ view' = "over"
    /\ UNCHANGED <<pc, xhrs, raised, idleVars>>
    /\ UNCHANGED <<months, usage, clicks, parsed, capturedAt, stopped,
                   returned, remote, calls, noise>>

\* The selenium host goes away or comes back between two calls.
RemoteChanges ==
    /\ pc = "idle"
    /\ remote' \in Remotes \ {remote}
    /\ UNCHANGED <<pc, br, title, xhrs, raised, idleVars>>
    /\ UNCHANGED <<view, months, usage, log, inflight, clicks, parsed, capturedAt,
                   stopped, returned, quits, calls, noise>>

\* ---- the portal

\* The portal answers the request under way: the response is logged.
Respond ==
    /\ br = "open"
    /\ inflight # None
    /\ \E kind \in {"json", "lost"},
          items \in SeqsUpTo(Items(inflight[1].view), MaxItems) :
        log' = Append(log, LogLine(kind, xhr_url(inflight[1].view),
                                   inflight[1].req, items))
    /\ inflight' = None
    /\ UNCHANGED <<pc, br, title, xhrs, raised, idleVars>>
    /\ UNCHANGED <<view, months, usage, clicks, parsed, capturedAt, stopped,
                   returned, remote, quits, calls, noise>>

\* A line that cannot be decoded is logged.
Noise ==
    /\ br = "open"
    /\ pc # "idle"
    /\ noise < MaxNoise
    /\ log' = Append(log, MalformedLine)
    /\ noise' = noise + 1
    /\ UNCHANGED <<pc, br, title, xhrs, raised, idleVars>>
    /\ UNCHANGED <<view, months, usage, inflight, clicks, parsed, capturedAt,
                   stopped, returned, remote, quits, calls>>

\* The call of get_forecast, where the usage calls have their view.
FORECAST == "forecast"

\* The landing page asks for the meter type when it is shown: the response
\* is logged, with a forecast body or without one, or it is not.
MeterResponse ==
    /\ br = "open"
    /\ pc = "select"
    /\ view = FORECAST
    /\ \A i \in DOMAIN log : log[i].url # URL_METER
    /\ \E kind \in {"json", "lost"}, body \in MeterBodies :
        log' = Append(log, LogLine(kind, URL_METER, <<calls, 0>>, body))
    /\ UNCHANGED <<pc, br, title, xhrs, raised, idleVars>>
    /\ UNCHANGED <<view, months, usage, inflight, clicks, parsed, capturedAt,
                   stopped, returned, remote, quits, calls, noise>>

\* ---- get_cost_reads -> _get_dated_data -> get_usage_by_*

\* _async_get_all_cost_reads / _async_get_recent_cost_reads ask for the
\* month, then the day, then the hour view, each at most once per session.
ViewOrder(v) == IF v = MONTH THEN 1 ELSE IF v = DAY THEN 2 ELSE IF v = HOUR THEN 3 ELSE 0

\* The call is made: it is the one the plan holds until it is over, and
\* months (days) is its period.
StartFetch ==
    /\ pc = "idle"
    /\ br = "open"
    /\ view # "over"
    /\ calls < MaxCalls
    /\ \E aggregate_type \in {MONTH, DAY, HOUR}, period \in 1..MaxPages :
        /\ ViewOrder(view) < ViewOrder(aggregate_type)
        /\ aggregate_type = MONTH => period = DefaultPeriod
        /\ plan' = <<Call(aggregate_type, period)>>
        /\ view' = aggregate_type
        /\ months' = period
    /\ calls' = calls + 1
    /\ pc' = "goto"
    /\ UNCHANGED <<br, title, xhrs, raised>>
    /\ UNCHANGED <<caller, exc, typed, submitted, loginFailedAt, user_id,
                   utility_account, account, customer_id, utility_forecast, forecasts,
                   last_stat, cost_reads, cost_statistics, consumption_statistics,
                   added, store, store0, endCalls, ret, cycles>>
    /\ UNCHANGED <<usage, log, inflight, clicks, parsed, capturedAt, stopped,
                   returned, remote, quits, noise>>

\* RockyMountainPower.get_forecast calls utility.get_forecast, once per
\* session and before the usage is asked for.
StartForecast ==
    /\ pc = "idle"
    /\ br = "open"
    /\ view = "none"
    /\ calls < MaxCalls
    /\ view' = FORECAST
    /\ calls' = calls + 1
    /\ pc' = "goto"
    /\ UNCHANGED <<br, title, xhrs, raised, idleVars>>
    /\ UNCHANGED <<months, usage, log, inflight, clicks, parsed, capturedAt, stopped,
                   returned, remote, quits, noise>>

\* An exception leaves get_cost_reads or get_forecast.
FetchRaises(e) ==
    /\ raised' = e
    /\ pc' = "returned"

\* Mutant: goto_energy_usage without the wait for the title.
GotoEnergyUsage_Unchecked ==
    /\ pc = "goto"
    /\ \/ /\ FetchRaises("NoSuchElementException")
          /\ UNCHANGED title
       \/ \E shown \in Titles :
            /\ title' = shown
            /\ pc' = "select"
            /\ UNCHANGED raised
    /\ UNCHANGED <<br, xhrs, idleVars, fetchVars>>

\* goto_energy_usage: the link is looked up and clicked, then the title is
\* waited for; any failure of the wait is CannotConnect.
GotoEnergyUsage ==
    /\ pc = "goto"
    /\ \/ /\ FetchRaises("NoSuchElementException")
          /\ UNCHANGED title
       \/ \E shown \in Titles :
            /\ title' = shown
            /\ IF shown = "Energy usage"
               THEN pc' = "select" /\ UNCHANGED raised
               ELSE FetchRaises("CannotConnect")
    /\ UNCHANGED <<br, xhrs, idleVars, fetchVars>>

\* target[3].click(); the view's .mat-option is clicked: the portal is asked
\* for the first page.  A missing control is an IndexError.
SelectView ==
    /\ pc = "select"
    /\ view # FORECAST
    /\ \/ /\ inflight' = Some([view |-> view, req |-> <<calls, 1>>])
          /\ pc' = "wait_first"
          /\ UNCHANGED raised
       \/ /\ FetchRaises("IndexError")
          /\ UNCHANGED inflight
    /\ UNCHANGED <<br, title, xhrs, idleVars>>
    /\ UNCHANGED <<view, months, usage, log, clicks, parsed, capturedAt, stopped,
                   returned, remote, quits, calls, noise>>

\* get_forecast after goto_energy_usage: xhrs = self.get_xhrs();
\* details = json.loads(xhrs[.../getMeterType]);
\* self.forecast = details.get("getMeterTypeResponseBody", {}).  No view
\* control is used.  A URL that was never captured is a KeyError.
ReadMeterType ==
    /\ pc = "select"
    /\ view = FORECAST
    /\ log' = <<>>
    /\ IF ~Decodable(log)
       THEN /\ FetchRaises("JSONDecodeError")
            /\ UNCHANGED <<xhrs, utility_forecast>>
       ELSE /\ xhrs' = get_xhrs(xhrs, log)
            /\ IF URL_METER \notin DOMAIN xhrs'
               THEN /\ FetchRaises("KeyError")
                    /\ UNCHANGED utility_forecast
               ELSE /\ utility_forecast' = xhrs'[URL_METER].items
                    /\ pc' = "returned"
                    /\ UNCHANGED raised
    /\ UNCHANGED <<br, title, caller, exc, typed, submitted, loginFailedAt, user_id,
                   utility_account, account, customer_id, forecasts, plan, last_stat,
                   cost_reads, cost_statistics, consumption_statistics, added, store,
                   store0, endCalls, ret, cycles>>
    /\ UNCHANGED <<view, months, usage, inflight, clicks, parsed, capturedAt, stopped,
                   returned, remote, quits, calls, noise>>

\* One get_xhrs call: the log is read and emptied; a line that cannot be
\* decoded raises, otherwise the responses read are merged into the buffer.
Capture ==
    /\ log' = <<>>
    /\ IF Decodable(log)
       THEN /\ xhrs' = get_xhrs(xhrs, log)
            /\ capturedAt' = IF xhr_url(view) \in DOMAIN Captured(log)
                             THEN Some(<<calls, clicks>>) ELSE capturedAt
       ELSE UNCHANGED <<xhrs, capturedAt>>

\* self.wait.until(lambda _: xhr_url in self.get_xhrs()), not guarded: the
\* wait polls get_xhrs until the url is in the buffer or the time is up.
WaitFirstCapture ==
    /\ pc = "wait_first"
    /\ Capture
    /\ IF ~Decodable(log) THEN FetchRaises("JSONDecodeError")
       ELSE IF xhr_url(view) \in DOMAIN xhrs' THEN pc' = "page" /\ UNCHANGED raised
       ELSE \/ UNCHANGED <<pc, raised>>
            \/ FetchRaises("TimeoutException")
    /\ UNCHANGED <<br, title, idleVars>>
    /\ UNCHANGED <<view, months, usage, inflight, clicks, parsed, stopped,
                   returned, remote, quits, calls, noise>>

\* Mutant: the loop without months -= 1.
ParsePage_NoDecrement ==
    /\ pc = "page"
    /\ Capture
    /\ IF ~Decodable(log)
       THEN /\ FetchRaises("JSONDecodeError")
            /\ UNCHANGED <<usage, parsed, months, stopped>>
       ELSE /\ usage' = usage \o PageUsage(view, xhrs'[xhr_url(view)].items)
            /\ parsed' = Append(parsed, [req |-> xhrs'[xhr_url(view)].req,
                                         at |-> capturedAt',
                                         items |-> xhrs'[xhr_url(view)].items])
            /\ months' = months
            /\ pc' = IF months > 0 THEN "clear" ELSE "return"
            /\ stopped' = IF months > 0 THEN stopped ELSE "exhausted"
            /\ UNCHANGED raised
    /\ UNCHANGED <<br, title, idleVars>>
    /\ UNCHANGED <<view, inflight, clicks, returned, remote, quits, calls, noise>>

\* xhrs = self.get_xhrs(); details = json.loads(xhrs[xhr_url]); every entry
\* is appended to usage; months -= 1.  The monthly view parses one page.
ParsePage ==
    /\ pc = "page"
    /\ Capture
    /\ IF ~Decodable(log)
       THEN /\ FetchRaises("JSONDecodeError")
            /\ UNCHANGED <<usage, parsed, months, stopped>>
       ELSE /\ usage' = usage \o PageUsage(view, xhrs'[xhr_url(view)].items)
            /\ parsed' = Append(parsed, [req |-> xhrs'[xhr_url(view)].req,
                                         at |-> capturedAt',
                                         items |-> xhrs'[xhr_url(view)].items])
            /\ months' = months - 1
            /\ pc' = IF months - 1 > 0 THEN "clear" ELSE "return"
            /\ stopped' = IF months - 1 > 0 THEN stopped ELSE "exhausted"
            /\ UNCHANGED raised
    /\ UNCHANGED <<br, title, idleVars>>
    /\ UNCHANGED <<view, inflight, clicks, returned, remote, quits, calls, noise>>

\* Mutant: the buffer is not cleared between two pages.
ClearBuffer_Skipped ==
    /\ pc = "clear"
    /\ pc' = "previous"
    /\ UNCHANGED <<br, title, xhrs, raised, idleVars>>
    /\ UNCHANGED <<view, months, usage, log, inflight, clicks, parsed, capturedAt,
                   stopped, returned, remote, quits, calls, noise>>

\* if months > 0: self.xhrs = {}
ClearBuffer ==
    /\ pc = "clear"
    /\ xhrs' = EmptyXhrs
    /\ capturedAt' = None
    /\ pc' = "previous"
    /\ UNCHANGED <<br, title, raised, idleVars>>
    /\ UNCHANGED <<view, months, usage, log, inflight, clicks, parsed, stopped,
                   returned, remote, quits, calls, noise>>

\* target = self.get_el(..., text="PREVIOUS"): no such control is an
\* IndexError; target.click(): ElementClickInterceptedException ends the loop.
ClickPrevious ==
    /\ pc = "previous"
    /\ \/ /\ FetchRaises("IndexError")
          /\ stopped' = "unavailable"
          /\ UNCHANGED <<clicks, inflight>>
       \/ /\ stopped' = "intercepted"
          /\ pc' = "return"
          /\ UNCHANGED <<raised, clicks, inflight>>
       \/ /\ clicks' = clicks + 1
          /\ inflight' = Some([view |-> view, req |-> <<calls, clicks + 2>>])
          /\ pc' = "wait_next"
          /\ UNCHANGED <<raised, stopped>>
    /\ UNCHANGED <<br, title, xhrs, idleVars>>
    /\ UNCHANGED <<view, months, usage, log, parsed, capturedAt,
                   returned, remote, quits, calls, noise>>

\* Mutant: the wait for the next page without its try/except.
WaitNextCapture_Unguarded ==
    /\ pc = "wait_next"
    /\ Capture
    /\ IF ~Decodable(log)
       THEN FetchRaises("JSONDecodeError") /\ UNCHANGED stopped
       ELSE IF xhr_url(view) \in DOMAIN xhrs'
       THEN pc' = "page" /\ UNCHANGED <<raised, stopped>>
       ELSE \/ UNCHANGED <<pc, raised, stopped>>
            \/ /\ stopped' = "timeout"
               /\ FetchRaises("TimeoutException")
    /\ UNCHANGED <<br, title, idleVars>>
    /\ UNCHANGED <<view, months, usage, inflight, clicks, parsed,
                   returned, remote, quits, calls, noise>>

\* try: self.wait.until(lambda _: xhr_url in self.get_xhrs())
\* except TimeoutException: break
WaitNextCapture ==
    /\ pc = "wait_next"
    /\ Capture
    /\ IF ~Decodable(log)
       THEN FetchRaises("JSONDecodeError") /\ UNCHANGED stopped
       ELSE IF xhr_url(view) \in DOMAIN xhrs'
       THEN pc' = "page" /\ UNCHANGED <<raised, stopped>>
       ELSE \/ UNCHANGED <<pc, raised, stopped>>
            \/ /\ stopped' = "timeout"
               /\ pc' = "return"
               /\ UNCHANGED raised
    /\ UNCHANGED <<br, title, idleVars>>
    /\ UNCHANGED <<view, months, usage, inflight, clicks, parsed,
                   returned, remote, quits, calls, noise>>

\* return usage; get_cost_reads turns the entries into CostReads and drops
\* the last ones without cost and consumption.
ReturnUsage ==
    /\ pc = "return"
    /\ returned' = get_cost_reads(usage)
    /\ pc' = "returned"
    /\ UNCHANGED <<br, title, xhrs, raised, idleVars>>
    /\ UNCHANGED <<view, months, usage, log, inflight, clicks, parsed, capturedAt,
                   stopped, remote, quits, calls, noise>>

\* The caller has the CostReads, or the exception, which ends the cycle: the
\* locals of the call are gone, the browser, its log and the buffer stay.
CallOver ==
    /\ pc = "returned"
    /\ pc' = "idle"
    /\ view' = IF raised # "none" THEN "over" ELSE view
    /\ months' = 0
    /\ usage' = <<>>
    /\ clicks' = 0
    /\ parsed' = <<>>
    /\ stopped' = "none"
    /\ returned' = <<>>
    /\ raised' = "none"
    /\ plan' = <<>>
    /\ UNCHANGED <<br, title, xhrs>>
    /\ UNCHANGED <<caller, exc, typed, submitted, loginFailedAt, user_id,
                   utility_account, account, customer_id, utility_forecast, forecasts,
                   last_stat, cost_reads, cost_statistics, consumption_statistics,
                   added, store, store0, endCalls, ret, cycles>>
    /\ UNCHANGED <<log, inflight, capturedAt, remote, quits, calls, noise>>

NextUtility ==
    \/ OpenSession
    \/ EndSession
    \/ RemoteChanges
    \/ Respond
    \/ Noise
    \/ MeterResponse
    \/ StartForecast
    \/ StartFetch
    \/ GotoEnergyUsage
    \/ ReadMeterType
    \/ SelectView
    \/ WaitFirstCapture
    \/ ParsePage
    \/ ClearBuffer
    \/ ClickPrevious
    \/ WaitNextCapture
    \/ ReturnUsage
    \/ CallOver

SpecUtility == Init /\ [][NextUtility]_vars

\* The steps of the thread that makes the call.  Each is one statement or
\* one wait of at most ten seconds (implicitly_wait(10), WebDriverWait(br, 10)):
\* a call under way goes on.
CallSteps ==
    \/ GotoEnergyUsage
    \/ ReadMeterType
    \/ SelectView
    \/ WaitFirstCapture
    \/ ParsePage
    \/ ClearBuffer
    \/ ClickPrevious
    \/ WaitNextCapture
    \/ ReturnUsage

SpecUtilityFair == SpecUtility /\ WF_vars(CallSteps)

\* ================================================================== claims

Running == pc \notin {"idle", "done"}

\* C1: an update cycle or a credential validation that has started calls
\* end_session exactly once before it returns or raises, on every exit path:
\* no call while it runs, one call when it has ended.
C1_TeardownOnce ==
    /\ pc = "done" => endCalls = 1
    /\ Running => endCalls = 0

\* An update cycle that failed in a usage fetch, and a validation that failed
\* with an unclassified error, have both ended.
C1_Witness ==
    /\ pc = "done"
    /\ caller = "update"
    /\ raised = "TimeoutException"
    /\ plan # <<>>
    /\ cost_reads # <<>>
    /\ endCalls = 1

\* C2: when the landing page title is not reached after the credentials were
\* submitted, login raises InvalidAuth, the update cycle raises the
\* authentication failure, end_session has run and the store holds what it
\* held when the cycle started.
C2_InvalidAuthCycle ==
    /\ (pc = "login_raised" /\ loginFailedAt = "wait_account") =>
            exc = "InvalidAuth" /\ submitted
    /\ (pc = "done" /\ caller = "update" /\ loginFailedAt = "wait_account") =>
            /\ raised = "ConfigEntryAuthFailed"
            /\ endCalls = 1
            /\ added = 0
            /\ cost_statistics = <<>>
            /\ consumption_statistics = <<>>
            /\ store = store0

\* A later cycle of an account with persisted points fails at the landing page.
C2_Witness ==
    /\ pc = "done"
    /\ caller = "update"
    /\ loginFailedAt = "wait_account"
    /\ raised = "ConfigEntryAuthFailed"
    /\ DOMAIN store0[CONSUMPTION] # {}

\* ---- what the statistics claims speak of

\* The list handed to the store for a series, and a record's value for it.
Emitted(series) == IF series = COST THEN cost_statistics ELSE consumption_statistics
ValueOf(cost_read, series) ==
    IF series = COST THEN cost_read.provided_cost ELSE cost_read.consumption

Starts(points) == {points[i].start : i \in DOMAIN points}
NoRepeat(points) ==
    \A i, j \in DOMAIN points : i # j => points[i].start # points[j].start

RECURSIVE PrefixTotal(_, _, _)
PrefixTotal(reads, i, series) ==
    IF i = 0 THEN 0 ELSE PrefixTotal(reads, i - 1, series) + ValueOf(reads[i], series)

After(reads, T) == SelectSeq(reads, LAMBDA r : r.start_time > T)

\* The emitted list of `series` holds, in order, one point for each record
\* starting after T, the sums running on from S.
EmitsAfter(series, reads, T, S) ==
    LET q == After(reads, T)
        e == Emitted(series)
    IN  /\ Len(e) = Len(q)
        /\ \A i \in 1..Len(q) :
            /\ e[i].start = q[i].start_time
            /\ e[i].state = ValueOf(q[i], series)
            /\ e[i].sum = S + PrefixTotal(q, i, series)

\* The last persisted point of a series, as the cycle found it.
LastTime(series) == MaxOf(DOMAIN store0[series])
LastSum(series) == store0[series][LastTime(series)].sum

\* The earliest persisted point at or after the first fetched record.
WindowTimes(series) == {t \in DOMAIN store0[series] : t >= cost_reads[1].start_time}
WindowTime(series) == MinOf(WindowTimes(series))

\* The fetches of the cycle have all returned, on the first-run path or on the
\* incremental one, and _insert_statistics has ended.
InsertEnded(path) ==
    /\ caller = "update"
    /\ last_stat = path
    /\ plan = <<>>
    /\ pc \in {"finally", "done"}

\* C3: each timestamp is handed to a series at most once: the points of one
\* cycle have distinct timestamps, and none is a timestamp the series holds
\* from an earlier cycle.
C3_NoTimestampTwice ==
    pc = "add" =>
        \A series \in SeriesIds :
            /\ NoRepeat(Emitted(series))
            /\ Starts(Emitted(series)) \cap DOMAIN store[series] = {}

\* C4: the points of each series, ordered by timestamp, have non-decreasing
\* running sums.
C4_SumsNonDecreasing ==
    \A series \in SeriesIds :
        \A t1, t2 \in DOMAIN store[series] :
            t1 < t2 => store[series][t1].sum <= store[series][t2].sum

\* C5: an incremental merge emits exactly the records starting after the last
\* persisted point, the sums running on from that point's sum, also when
\* every fetched record starts after it.
C5_AfterLastPersisted ==
    (InsertEnded("some") /\ cost_reads # <<>>) =>
        /\ exc = "none" /\ raised = "none"
        /\ \A series \in SeriesIds :
            EmitsAfter(series, cost_reads, LastTime(series), LastSum(series))

NothingAfterWindowStart ==
    \/ cost_reads = <<>>
    \/ /\ WindowTimes(COST) # {}
       /\ \A i \in DOMAIN cost_reads : cost_reads[i].start_time <= WindowTime(COST)

C7_FirstRunSums ==
    (pc = "add" /\ last_stat = "none") =>
        \A series \in SeriesIds :
            /\ Len(Emitted(series)) = Len(cost_reads)
            /\ \A i \in 1..Len(cost_reads) :
                /\ Emitted(series)[i].start = cost_reads[i].start_time
                /\ Emitted(series)[i].state = ValueOf(cost_reads[i], series)
                /\ Emitted(series)[i].sum = PrefixTotal(cost_reads, i, series)

\* A first run over three records, the second without consumption: the
\* consumption sums are 1, 1, 2.
C7_Witness ==
    /\ pc = "add"
    /\ last_stat = "none"
    /\ Len(cost_reads) = 3
    /\ cost_reads[2].consumption = 0
    /\ consumption_statistics[1].sum = 1
    /\ consumption_statistics[2].sum = 1
    /\ consumption_statistics[3].sum = 2

\* C20: the store changes only in the step that hands over the two complete
\* lists, after every fetch of the cycle has returned; a cycle that fails
\* during a fetch leaves the store as it found it.
C20_ComputedThenApplied ==
    /\ (store # store0 \/ added # 0) =>
            /\ caller = "update"
            /\ pc \in {"finally", "done"}
            /\ plan = <<>>
            /\ added = 2
            /\ store[COST] = async_add_external_statistics(store0[COST], cost_statistics)
            /\ store[CONSUMPTION] =
                    async_add_external_statistics(store0[CONSUMPTION], consumption_statistics)
    /\ (caller = "update" /\ pc = "done" /\ plan # <<>>) =>
            store = store0 /\ added = 0

\* The second cycle failed in a fetch after an earlier fetch had returned
\* records, and the store is as the first cycle left it.
C20_Witness ==
    /\ pc = "done"
    /\ caller = "update"
    /\ cycles = 2
    /\ plan # <<>>
    /\ cost_reads # <<>>
    /\ raised = "TimeoutException"
    /\ DOMAIN store[COST] # {}
    /\ store = store0

\* ---- what the claims about the utility speak of

\* The payload entries of the pages parsed, in the order parsed.
RECURSIVE AllItems(_)
AllItems(pages) ==
    IF pages = <<>> THEN <<>> ELSE Head(pages).items \o AllItems(Tail(pages))

\* The entries usage holds when exactly these pages were parsed.
PagesUsage(aggregate_type, pages) == PageUsage(aggregate_type, AllItems(pages))

\* A step that is one call of on_quit / of get_xhrs.
QuitStep == quits' = quits + 1
CaptureStep ==
    /\ pc \in {"wait_first", "page", "wait_next"} \/ (pc = "select" /\ view = FORECAST)
    /\ log' = <<>>

\* C11: a call of on_quit raises nothing in any state of the session; it
\* changes nothing when there is no open browser or when the host does not
\* answer, closes the browser otherwise, and leaves a state in which a
\* further call changes nothing.
C11_CloseNeverRaisesIdempotent ==
    [][QuitStep =>
        /\ raised' = raised /\ exc' = exc /\ pc' = pc
        /\ xhrs' = xhrs
        /\ (br \in {"none", "closed"} \/ remote = "down") => br' = br
        /\ (br = "open" /\ remote = "up") => br' = "closed"
        /\ close(br', remote') = br']_vars

\* on_quit was called twice after a fetch, and the browser is closed.
C11_Witness == quits = 2 /\ br = "closed" /\ calls = 1 /\ pc = "idle"

\* C12: when the PREVIOUS control cannot be clicked after k pages, because the
\* click is intercepted or the control is not there, the fetch raises nothing
\* and returns the records of exactly those k pages.
C12_UnclickableReturnsPages ==
    (pc = "returned" /\ stopped \in {"intercepted", "unavailable"}) =>
        /\ raised = "none"
        /\ Len(parsed) >= 1
        /\ months >= 1
        /\ usage = PagesUsage(view, parsed)
        /\ returned = get_cost_reads(usage)

\* C13: when no capture of the paging endpoint arrives in time after a click
\* on PREVIOUS, the loop ends there: nothing is raised, no further click is
\* made, and usage holds the records of the pages parsed so far.
C13_TimeoutEndsHistory ==
    stopped = "timeout" =>
        /\ pc \in {"return", "returned"}
        /\ raised = "none"
        /\ months >= 1
        /\ clicks = Len(parsed)
        /\ usage = PagesUsage(view, parsed)

\* Two pages were parsed, the second click brought nothing in time.
C13_Witness ==
    /\ pc = "returned"
    /\ stopped = "timeout"
    /\ Len(parsed) = 2
    /\ clicks = 2
    /\ Len(usage) = 2

\* C14: the payload parsed as page n+1 entered the buffer after the n-th
\* click on PREVIOUS, and it is not a response parsed as an earlier page.
C14_PaginationBarrier ==
    \A i \in 2..Len(parsed) :
        /\ parsed[i].at = Some(<<calls, i - 1>>)
        /\ \A j \in 1..(i - 1) : parsed[j].req # parsed[i].req

\* Three pages were parsed in one fetch.
C14_Witness == Len(parsed) = 3 /\ pc = "returned" /\ raised = "none"

\* C15: a step keeps every URL of the buffer, with its body or with a body
\* read from the log by that step, unless it is the clear between two pages.
C15_BufferCumulative ==
    [][\/ /\ DOMAIN xhrs \subseteq DOMAIN xhrs'
          /\ \A u \in DOMAIN xhrs :
                \/ xhrs'[u] = xhrs[u]
                \/ /\ CaptureStep
                   /\ \E i \in DOMAIN log :
                        /\ log[i].kind = "json" /\ log[i].url = u
                        /\ xhrs'[u] = [req |-> log[i].req, items |-> log[i].items]
       \/ /\ pc = "clear"
          /\ xhrs' = EmptyXhrs]_vars

\* A capture added the usage endpoint to a buffer that held the identity
\* responses, and these are still there.
C15_Witness ==
    /\ pc = "page"
    /\ view = DAY
    /\ IdentityURLs \subseteq DOMAIN xhrs
    /\ xhr_url(DAY) \in DOMAIN xhrs

\* C16: a log line that cannot be decoded, or a response whose body is not
\* available, never aborts get_xhrs: the call returns, every response of the
\* batch whose body is available is in the buffer, and a URL whose body was
\* not available is not added.
C16_CaptureSurvivesBadEntry ==
    [][CaptureStep =>
        /\ raised' # "JSONDecodeError"
        /\ \A i \in DOMAIN log :
            /\ log[i].kind = "json" => log[i].url \in DOMAIN xhrs'
            /\ (/\ log[i].kind = "lost"
                /\ log[i].url \notin DOMAIN xhrs
                /\ \A j \in DOMAIN log : log[j].url = log[i].url => log[j].kind # "json")
               => log[i].url \notin DOMAIN xhrs']_vars

\* The last record with a cost or a consumption, 0 when there is none.
LastNonZero(reads) ==
    MaxOf({0} \cup {i \in DOMAIN reads :
                        reads[i].provided_cost # 0 \/ reads[i].consumption # 0})

\* C17: get_cost_reads returns the records of the fetch, in their order, up to
\* and including the last one with a non-zero consumption or cost, and none
\* of the records after it.
C17_TrailingZerosTrimmed ==
    (pc = "returned" /\ raised = "none") =>
        LET all == [i \in 1..Len(usage) |-> CostRead(usage[i])]
        IN  returned = SubSeq(all, 1, LastNonZero(all))

\* Three records were fetched, the last two without cost and consumption.
C17_Witness ==
    /\ pc = "returned"
    /\ raised = "none"
    /\ Len(usage) = 3
    /\ Len(returned) = 1

\* C18: an hourly entry read at 24:00 on day D ends at 00:00 of the day after
\* D, any other entry at its own date and time; each starts one hour before
\* its end.
C18_HourlyEndOfDay ==
    view = HOUR =>
        /\ Len(usage) = Len(AllItems(parsed))
        /\ \A i \in 1..Len(usage) :
            LET d == AllItems(parsed)[i]
            IN  /\ usage[i].endTime = IF d.readTime = 24
                                      THEN Midnight(d.readDate + 1)
                                      ELSE FromIso(d.readDate, d.readTime)
                /\ usage[i].startTime = usage[i].endTime - 1

\* C19: every record the fetch collects ends after it starts.
C19_EndAfterStart ==
    \A i \in DOMAIN usage : usage[i].endTime > usage[i].startTime

\* C8: a login that fails in the identity extraction, because the identity or
\* the account-list response is missing from the buffer, fails with
\* CannotConnect.
C8_MissingIdentityIsCannotConnect ==
    (pc = "login_raised" /\ loginFailedAt = "identity") => exc = "CannotConnect"

\* C9: when the login page title is not reached, login fails with
\* CannotConnect, no credential was typed and none was submitted, and login
\* does not go on.
C9_NoSignInPage ==
    loginFailedAt = "wait_signin" =>
        /\ typed = {}
        /\ ~submitted
        /\ pc \in {"login_raised", "finally", "done"}
        /\ pc = "login_raised" => exc = "CannotConnect"
        /\ (pc = "done" /\ caller = "validate") =>
                raised = "none" /\ ret = "cannot_connect"
        /\ (pc = "done" /\ caller = "update") => raised = "CannotConnect"

C9_Witness ==
    /\ loginFailedAt = "wait_signin"
    /\ pc = "done"
    /\ caller = "validate"
    /\ ret = "cannot_connect"

\* The steps of login the claim C10 names.
LoginSteps == {"get", "wait_frame", "username", "password", "next",
               "wait_account", "identity"}

\* C10: a login that fails at the page load, the login frame wait, a
\* credential field lookup, the submit, the landing-page wait or the identity
\* extraction fails with InvalidAuth or CannotConnect.
C10_OnlyClassifiedFailures ==
    (pc = "login_raised" /\ loginFailedAt \in LoginSteps \cup {"wait_signin"}) =>
        exc \in Classified

\* ---- sessions

\* A step of init_browser that created a browser.
BrowserCreated == pc = "init_browser" /\ pc' = "get"

\* C21: at most one browser session is open at any moment and none remains
\* open after the update cycle has ended: a browser is created only when the
\* object holds no open one, and an ended update cycle leaves none open.
C21_OneSessionNoneLeft ==
    /\ []((pc = "done" /\ caller = "update") => br # "open")
    /\ [][BrowserCreated => br # "open"]_vars

\* ---- the landing page

\* The steps of a call that use a view control or read what the view brought.
PastLanding == {"select", "wait_first", "page", "clear", "previous", "wait_next", "return"}

\* C22: get_forecast and the usage calls of the month, day and hour view go
\* to the usage landing page first and check its title before any view
\* control is used: a call begins with the navigation, goes on only under
\* the title "Energy usage", and ends with CannotConnect, no view selected,
\* when the navigation was made and the title is another one.
C22_LandingPageFirst ==
    /\ [](pc \in PastLanding => title = "Energy usage")
    /\ [][(pc = "idle" /\ pc' # "idle") => pc' = "goto"]_vars
    /\ [][(inflight' # inflight /\ inflight' # None) =>
                (pc \in PastLanding /\ title = "Energy usage")]_vars
    /\ [][pc = "goto" =>
            \/ /\ pc' = "select" /\ title' = "Energy usage" /\ raised' = "none"
            \/ /\ pc' = "returned" /\ raised' = "CannotConnect"
               /\ title' # "Energy usage"
               /\ UNCHANGED <<inflight, xhrs, utility_forecast, usage>>
            \/ /\ pc' = "returned" /\ raised' = "NoSuchElementException"
               /\ UNCHANGED <<title, inflight, xhrs, utility_forecast, usage>>
            \/ pc' = "goto"]_vars

\* get_forecast found the sign-in page where the usage page should be.
C22_Witness ==
    /\ pc = "returned"
    /\ view = FORECAST
    /\ title = "Sign in"
    /\ raised = "CannotConnect"
    /\ inflight = None

\* ---- waits

\* C23: a wait of a usage fetch that runs out of time is recovered from: the
\* fetch raises no TimeoutException, and when the first capture did not
\* arrive in time it returns, with nothing raised, the records it has, which
\* are none.
C23_TimeoutRecoverable ==
    /\ raised # "TimeoutException"
    /\ (pc = "returned" /\ view \in {MONTH, DAY, HOUR} /\ parsed = <<>>
            /\ raised \notin {"NoSuchElementException", "CannotConnect",
                              "IndexError", "JSONDecodeError"}) =>
            /\ raised = "none"
            /\ returned = <<>>

\* ---- the order of emission

\* The timestamps of a list of points grow from each point to the next.
Increasing(points) ==
    \A i \in 1..(Len(points) - 1) : points[i].start < points[i + 1].start

\* C24: the points one cycle hands to a series have strictly increasing
\* timestamps in the order they are emitted, on a first run (the month, day
\* and hour fetches one after the other) and on an incremental one.
C24_EmissionOrderIncreasing ==
    pc = "add" => \A series \in SeriesIds : Increasing(Emitted(series))

\* ---- trimming and pages

\* Every PREVIOUS page holds periods earlier than the page before it.
PagesGoBack ==
    \A p, q \in DOMAIN parsed :
        p < q =>
            \A a \in DOMAIN parsed[p].items, b \in DOMAIN parsed[q].items :
                PageUsage(view, parsed[q].items)[b].startTime <
                    PageUsage(view, parsed[p].items)[a].startTime

\* C25: in a fetch of two pages or more, each PREVIOUS page earlier than the
\* page before, the records the trimming removes are the latest records of
\* the fetch: every removed record starts after every record kept, and no
\* record is removed while a record without cost and consumption that starts
\* after it is kept.
C25_TrimmedAreLatest ==
    (pc = "returned" /\ raised = "none" /\ Len(parsed) >= 2 /\ PagesGoBack) =>
        LET all == [i \in 1..Len(usage) |-> CostRead(usage[i])]
        IN  \A i \in (Len(returned) + 1)..Len(all) : \A j \in 1..Len(returned) :
                /\ all[j].start_time < all[i].start_time
                /\ ~(/\ all[j].provided_cost = 0 /\ all[j].consumption = 0
                     /\ all[j].start_time > all[i].start_time)

\* ---- the two paths

\* The fetches of the first-run path and of the incremental path, in order.
FirstRunFetches ==
    <<[aggregate_type |-> MONTH, period |-> 1],
      [aggregate_type |-> DAY, period |-> 24],
      [aggregate_type |-> HOUR, period |-> 60]>>
IncrementalFetches ==
    <<[aggregate_type |-> DAY, period |-> 1],
      [aggregate_type |-> HOUR, period |-> 1]>>
PathFetches(path) == IF path = "none" THEN FirstRunFetches ELSE IncrementalFetches

\* The fetches from the k-th on.
FetchesFrom(path, k) == SubSeq(PathFetches(path), k, Len(PathFetches(path)))

PageBound == plan[1].period

\* C27: a fetch with page bound N >= 1 ends, by returning or by raising; it
\* parses at most N pages and clicks PREVIOUS at most N - 1 times, after the
\* N-th page it makes no further step but the return, and when no click and
\* no wait stopped it, it has parsed exactly N pages.
C27_BoundedPaging ==
    /\ [](plan # <<>> =>
            /\ PageBound >= 1
            /\ Len(parsed) <= PageBound
            /\ clicks <= PageBound - 1
            /\ clicks <= Len(parsed)
            /\ Len(parsed) = PageBound => pc \in {"return", "returned"}
            /\ (pc = "returned" /\ raised = "none"
                    /\ stopped \notin {"intercepted", "timeout"}) =>
                    Len(parsed) = PageBound /\ clicks = PageBound - 1)
    /\ (plan # <<>>) ~> (pc = "returned")

\* A fetch with bound 3 parsed its three pages after two clicks.
C27_Witness ==
    /\ pc = "returned"
    /\ plan # <<>>
    /\ PageBound = 3
    /\ Len(parsed) = 3
    /\ clicks = 2
    /\ stopped = "exhausted"

\* ---- the forecast

\* The buffer exposes no forecast: the meter-type response was not captured,
\* or it carries no forecast body.
NoForecastIn(buffer) == URL_METER \notin DOMAIN buffer \/ buffer[URL_METER] = "empty"

\* C28: a missing forecast is no error: when get_forecast has reached the
\* usage page and the buffer exposes no forecast, it returns the empty list
\* and the cycle goes on to the merge; a cycle that ends without an error and
\* without a forecast returns the empty mapping.
C28_NoForecastNoError ==
    /\ [][(/\ pc = "logged_in" /\ caller = "update"
           /\ title' = "Energy usage"
           /\ NoForecastIn(xhrs')) =>
                /\ pc' = "insert_statistics"
                /\ exc' = "none"
                /\ forecasts' = <<>>]_vars
    /\ []((pc = "done" /\ caller = "update" /\ raised = "none" /\ forecasts = <<>>) =>
                ret = "no_forecasts")

\* ---- the two series

\* C29: the cost and the consumption series go in lockstep: the two lists of
\* a cycle have the same number of points with the same timestamps in the
\* same order, and after any number of cycles the two series hold points at
\* the same timestamps.
C29_SeriesInLockstep ==
    /\ Len(cost_statistics) = Len(consumption_statistics)
    /\ \A i \in DOMAIN cost_statistics :
            cost_statistics[i].start = consumption_statistics[i].start
    /\ DOMAIN store[COST] = DOMAIN store[CONSUMPTION]

\* The second cycle added points to series that held some.
C29_Witness ==
    /\ pc = "done"
    /\ cycles = 2
    /\ added = 2
    /\ Len(cost_statistics) = 1
    /\ Len(consumption_statistics) = 1
    /\ DOMAIN store0[COST] # {}
    /\ DOMAIN store[COST] # DOMAIN store0[COST]

====
